---- MODULE Spec2Model ----
(***************************************************************************)
(* Model of src/lib/l3/complex/csymm.ts: the two level-3 routines csymm    *)
(* (complex) and ssymm (real), C := alpha*A*B + beta*C or                  *)
(* C := alpha*B*A + beta*C with A symmetric and stored in one triangle.    *)
(*                                                                         *)
(* A call is a small state machine: the arguments are fixed by Init, the   *)
(* actions are the code paths of the two routines.  ssymm and the          *)
(* terminating paths of csymm are applied as whole loops (recursive        *)
(* operators); the inner k-loop of csymm's left branch is stepped one      *)
(* iteration at a time.                                                    *)
(***************************************************************************)
EXTENDS Integers, Sequences, FiniteSets, TLC

(* ----------------------------- bounds ---------------------------------- *)
\* largest m and n of a call
MaxDim == 2
\* largest leading dimension of a matrix view
MaxLd == 3

(* ------------------------ JavaScript numbers --------------------------- *)
\* The IEEE NaN of a JavaScript number (also what reading `undefined`
\* becomes in arithmetic).  All model values are small integers, NaN is a
\* token outside their range.
NaN == 1000000

Add(x, y) == IF x = NaN \/ y = NaN THEN NaN ELSE x + y
Sub(x, y) == IF x = NaN \/ y = NaN THEN NaN ELSE x - y
Mul(x, y) == IF x = NaN \/ y = NaN THEN NaN ELSE x * y

max(x, y) == IF x >= y THEN x ELSE y

(* ----------------------- f_func collaborators -------------------------- *)
\* lowerChar: first character of the token, lower-cased.
lowerChar(ch) ==
    CASE ch = "L" -> "l"
      [] ch = "R" -> "r"
      [] ch = "U" -> "u"
      [] OTHER -> ch

\* Matrix.colOfEx(j): offset of the element before column j, so that
\* colOfEx(j) + i is the (1-based) position of element (i, j).
colOfEx(M, j) == (j - 1) * M.nrRows

\* x = buf[idx] on a typed array: out of range reads give undefined -> NaN.
Rd(buf, idx) == IF idx \in 1..Len(buf) THEN buf[idx] ELSE NaN

\* buf[idx] = v on a typed array: out of range writes are dropped.
Wr(buf, idx, v) == IF idx \in 1..Len(buf) THEN [buf EXCEPT ![idx] = v] ELSE buf

\* A value computed once and then used: F of the value of v.
Once(v, F(_)) == CHOOSE r \in {F(x) : x \in {v}} : TRUE

\* Matrix.setCol(col, rowStart, rowEnd, value): fill rows rowStart..rowEnd
\* of column col of every buffer of the matrix.
FillBuf(buf, from, to, v) ==
    [p \in 1..Len(buf) |-> IF p >= from /\ p <= to THEN v ELSE buf[p]]

setCol(M, col, rowStart, rowEnd, v) ==
    LET coords == colOfEx(M, col)
        r2 == FillBuf(M.r, coords + rowStart, coords + rowEnd, v)
    IN  IF "i" \in DOMAIN M
        THEN [M EXCEPT !.r = r2,
                       !.i = FillBuf(M.i, coords + rowStart, coords + rowEnd, v)]
        ELSE [M EXCEPT !.r = r2]

\* c.r[idx] = v
WrR(M, idx, v) == [M EXCEPT !.r = Wr(M.r, idx, v)]
\* c.i[idx] = v
WrI(M, idx, v) == [M EXCEPT !.i = Wr(M.i, idx, v)]

(* ------------------------------- state --------------------------------- *)
VARIABLES
    routine,            \* "csymm" or "ssymm": the entry point called
    side, uplo,         \* the selector tokens as passed
    m, n,               \* rows and columns of B and C
    alpha, beta,        \* scalars: numbers (ssymm) or [re, im] (csymm)
    a, b, c,            \* Matrix objects [nrRows, r] or [nrRows, r, i]
    lda, ldb, ldc,      \* leading dimensions as passed
    c0,                 \* c as it was on entry
    pc,                 \* "call", "ktest", "kbody", "returned", "raised"
    err,                \* [kind, info]: the error thrown, if any
    rd,                 \* offsets of A's buffers read so far
    loc                 \* locals of csymm's left branch: j, i, k, temp1, temp2

vars == <<routine, side, uplo, m, n, alpha, beta, a, b, c, lda, ldb, ldc,
          c0, pc, err, rd, loc>>

args == <<routine, side, uplo, m, n, alpha, beta, a, b, lda, ldb, ldc, c0>>

(* ------------------------------- ssymm --------------------------------- *)
\* Test the input parameters (ssymm).
ssymmInfo(si, ul, mm, nn, ldA, ldB, ldC) ==
    LET nrowA == IF si = "l" THEN mm ELSE nn
    IN  IF si # "l" /\ si # "r" THEN 1
        ELSE IF ul # "u" /\ ul # "l" THEN 2
        ELSE IF mm < 0 THEN 3
        ELSE IF nn < 0 THEN 4
        ELSE IF ldA < max(1, nrowA) THEN 7
        ELSE IF ldB < max(1, mm) THEN 9
        ELSE IF ldC < max(1, mm) THEN 12
        ELSE 0

\* Quick return if possible (ssymm).
ssymmQuick == m = 0 \/ n = 0 \/ (alpha = 0 /\ beta = 1)

\* when alpha is zero, beta not zero: c.r[coords + i] *= beta, i = 1..m
RECURSIVE ssymmScaleI(_, _, _)
ssymmScaleI(C_in, j, i) ==
    Once(C_in, LAMBDA C :
    IF i > m THEN C
    ELSE LET coords == colOfEx(C, j)
         IN  ssymmScaleI(WrR(C, coords + i, Mul(Rd(C.r, coords + i), beta)),
                         j, i + 1))

\* when alpha is zero: the loop over the columns j = 1..n
RECURSIVE ssymmAlphaZeroJ(_, _)
ssymmAlphaZeroJ(C_in, j) ==
    Once(C_in, LAMBDA C :
    IF j > n THEN C
    ELSE IF beta = 0
         THEN ssymmAlphaZeroJ(setCol(C, j, 1, m, 0), j + 1)
         ELSE ssymmAlphaZeroJ(ssymmScaleI(C, j, 1), j + 1))

\* side = 'l', uplo = 'u': the k loop, k = 1..i-1.  st = [c, rd, temp2]
RECURSIVE ssymmLeftUpperK(_, _, _, _, _, _)
ssymmLeftUpperK(A, st_in, j, i, k, temp1) ==
    Once(st_in, LAMBDA st :
    IF k > i - 1 THEN st
    ELSE LET coorBJ == colOfEx(b, j)
             coorCJ == colOfEx(st.c, j)
             coorAI == colOfEx(A, i)
             aki    == Rd(A.r, coorAI + k)
         IN  ssymmLeftUpperK(A,
                [c     |-> WrR(st.c, coorCJ + k,
                               Add(Rd(st.c.r, coorCJ + k), Mul(temp1, aki))),
                 temp2 |-> Add(st.temp2, Mul(Rd(b.r, coorBJ + k), aki)),
                 rd    |-> st.rd \cup {coorAI + k}],
                j, i, k + 1, temp1))

\* side = 'l', uplo = 'u': the i loop, i = 1..m
RECURSIVE ssymmLeftUpperI(_, _, _, _)
ssymmLeftUpperI(A, st_in, j, i) ==
    Once(st_in, LAMBDA st :
    IF i > m THEN st
    ELSE LET coorBJ == colOfEx(b, j)
             coorCJ == colOfEx(st.c, j)
             coorAI == colOfEx(A, i)
             temp1  == Mul(alpha, Rd(b.r, coorBJ + i))
             s2     == ssymmLeftUpperK(A, [st EXCEPT !.temp2 = 0], j, i, 1, temp1)
             re0    == Add(Mul(temp1, Rd(A.r, coorAI + i)), Mul(alpha, s2.temp2))
             re     == IF beta # 0
                       THEN Add(re0, Mul(beta, Rd(s2.c.r, coorCJ + i)))
                       ELSE re0
         IN  ssymmLeftUpperI(A,
                [c     |-> WrR(s2.c, coorCJ + i, re),
                 temp2 |-> s2.temp2,
                 rd    |-> s2.rd \cup {coorAI + i}],
                j, i + 1))

RECURSIVE ssymmLeftUpperJ(_, _, _)
ssymmLeftUpperJ(A, st_in, j) ==
    Once(st_in, LAMBDA st :
    IF j > n THEN st
    ELSE ssymmLeftUpperJ(A, ssymmLeftUpperI(A, st, j, 1), j + 1))

\* side = 'l', uplo = 'l': the k loop, k = i+1..m.  coorCJ is b.colOfEx(j).
RECURSIVE ssymmLeftLowerK(_, _, _, _, _, _)
ssymmLeftLowerK(A, st_in, j, i, k, temp1) ==
    Once(st_in, LAMBDA st :
    IF k > m THEN st
    ELSE LET coorBJ == colOfEx(b, j)
             coorCJ == colOfEx(b, j)
             coorAI == colOfEx(A, i)
             aki    == Rd(A.r, coorAI + k)
         IN  ssymmLeftLowerK(A,
                [c     |-> WrR(st.c, coorCJ + k,
                               Add(Rd(st.c.r, coorCJ + k), Mul(temp1, aki))),
                 temp2 |-> Add(st.temp2, Mul(Rd(b.r, coorBJ + k), aki)),
                 rd    |-> st.rd \cup {coorAI + k}],
                j, i, k + 1, temp1))

\* side = 'l', uplo = 'l': the i loop, i = m down to 1
RECURSIVE ssymmLeftLowerI(_, _, _, _)
ssymmLeftLowerI(A, st_in, j, i) ==
    Once(st_in, LAMBDA st :
    IF i < 1 THEN st
    ELSE LET coorBJ == colOfEx(b, j)
             coorCJ == colOfEx(b, j)
             coorAI == colOfEx(A, i)
             temp1  == Mul(alpha, Rd(b.r, coorBJ + i))
             s2     == ssymmLeftLowerK(A, [st EXCEPT !.temp2 = 0], j, i, i + 1, temp1)
             re0    == Add(Mul(temp1, Rd(A.r, coorAI + i)), Mul(alpha, s2.temp2))
             re     == IF beta # 0
                       THEN Add(re0, Mul(beta, Rd(s2.c.r, coorCJ + i)))
                       ELSE re0
         IN  ssymmLeftLowerI(A,
                [c     |-> WrR(s2.c, coorCJ + i, re),
                 temp2 |-> s2.temp2,
                 rd    |-> s2.rd \cup {coorAI + i}],
                j, i - 1))

RECURSIVE ssymmLeftLowerJ(_, _, _)
ssymmLeftLowerJ(A, st_in, j) ==
    Once(st_in, LAMBDA st :
    IF j > n THEN st
    ELSE ssymmLeftLowerJ(A, ssymmLeftLowerI(A, st, j, m), j + 1))

\* side = 'r': c.r[coorCJ + i] = [beta * c.r[coorCJ + i] +] temp1 * b.r[coorBJ + i]
RECURSIVE ssymmRightSeedI(_, _, _, _)
ssymmRightSeedI(C_in, j, i, temp1) ==
    Once(C_in, LAMBDA C :
    IF i > m THEN C
    ELSE LET coorCJ == colOfEx(C, j)
             coorBJ == colOfEx(b, j)
             t      == Mul(temp1, Rd(b.r, coorBJ + i))
             v      == IF beta = 0 THEN t
                       ELSE Add(Mul(beta, Rd(C.r, coorCJ + i)), t)
         IN  ssymmRightSeedI(WrR(C, coorCJ + i, v), j, i + 1, temp1))

\* side = 'r': c.r[coorCJ + i] += temp1 * b.r[coorBK + i], i = 1..m
RECURSIVE ssymmRightAccI(_, _, _, _, _)
ssymmRightAccI(C_in, j, k, i, temp1) ==
    Once(C_in, LAMBDA C :
    IF i > m THEN C
    ELSE LET coorCJ == colOfEx(C, j)
             coorBK == colOfEx(b, k)
         IN  ssymmRightAccI(
                WrR(C, coorCJ + i,
                    Add(Rd(C.r, coorCJ + i), Mul(temp1, Rd(b.r, coorBK + i)))),
                j, k, i + 1, temp1))

\* side = 'r': the loop k = 1..j-1
RECURSIVE ssymmRightK1(_, _, _, _, _)
ssymmRightK1(ul, A, st_in, j, k) ==
    Once(st_in, LAMBDA st :
    IF k > j - 1 THEN st
    ELSE LET coorAJ == colOfEx(A, j)
             coorAK == colOfEx(A, k)
             at     == IF ul = "u" THEN coorAJ + k ELSE coorAK + j
             temp1  == Mul(alpha, Rd(A.r, at))
         IN  ssymmRightK1(ul, A,
                [st EXCEPT !.c = ssymmRightAccI(st.c, j, k, 1, temp1),
                           !.rd = @ \cup {at}],
                j, k + 1))

\* side = 'r': the loop k = j+1..n
RECURSIVE ssymmRightK2(_, _, _, _, _)
ssymmRightK2(ul, A, st_in, j, k) ==
    Once(st_in, LAMBDA st :
    IF k > n THEN st
    ELSE LET coorAJ == colOfEx(A, j)
             coorAK == colOfEx(A, k)
             at     == IF ul = "u" THEN coorAK + j ELSE coorAJ + k
             temp1  == Mul(alpha, Rd(A.r, at))
         IN  ssymmRightK2(ul, A,
                [st EXCEPT !.c = ssymmRightAccI(st.c, j, k, 1, temp1),
                           !.rd = @ \cup {at}],
                j, k + 1))

\* side = 'r': the loop over the columns j = 1..n
RECURSIVE ssymmRightJ(_, _, _, _)
ssymmRightJ(ul, A, st_in, j) ==
    Once(st_in, LAMBDA st :
    IF j > n THEN st
    ELSE LET coorAJ == colOfEx(A, j)
             temp1  == Mul(alpha, Rd(A.r, coorAJ + j))
             s1     == [st EXCEPT !.c = ssymmRightSeedI(st.c, j, 1, temp1),
                                  !.rd = @ \cup {coorAJ + j}]
             s2     == ssymmRightK1(ul, A, s1, j, 1)
         IN  ssymmRightJ(ul, A, ssymmRightK2(ul, A, s2, j, j + 1), j + 1))

\* The state the loops start from.
Start(C) == [c |-> C, rd |-> {}, temp2 |-> 0]

\* Start the operations (ssymm): the engine on lower-cased selectors.
ssymmEngine(si, ul, A, C) ==
    IF si = "l"
    THEN IF ul = "u" THEN ssymmLeftUpperJ(A, Start(C), 1)
                     ELSE ssymmLeftLowerJ(A, Start(C), 1)
    ELSE ssymmRightJ(ul, A, Start(C), 1)

(* ------------------------------- csymm --------------------------------- *)
\* 'lr'.includes(s) for a one-character token s: s is one of the characters.
includes(chars, s) == s \in chars

\* Test the input parameters (csymm).
csymmInfo(si, ul, mm, nn, ldA, ldB, ldC) ==
    LET nrowA == IF si = "l" THEN mm ELSE nn
    IN  IF ~includes({"l", "r"}, si) THEN 1
        ELSE IF includes({"u", "l"}, ul) THEN 2
        ELSE IF mm < 0 THEN 3
        ELSE IF nn < 0 THEN 4
        ELSE IF ldA < max(1, nrowA) THEN 7
        ELSE IF ldB < max(1, mm) THEN 9
        ELSE IF ldC < max(1, mm) THEN 12
        ELSE 0

alphaIsZero == alpha.re = 0 /\ alpha.im = 0
betaIsOne   == beta.re = 1 /\ beta.im = 0
betaIsZero  == beta.re = 0 /\ beta.im = 0

\* Quick return if possible (csymm).
csymmQuick == m = 0 \/ n = 0 \/ (alphaIsZero /\ betaIsOne)

\* (xr, xi) * (yr, yi): real part xr*yr - xi*yi, imaginary part xr*yi + xi*yr
MulRe(xr, xi, yr, yi) == Sub(Mul(xr, yr), Mul(xi, yi))
MulIm(xr, xi, yr, yi) == Add(Mul(xr, yi), Mul(xi, yr))

\* BETA*C(I,J) added when beta is not zero
BetaRe(C, at, re) ==
    IF ~betaIsZero
    THEN Add(re, MulRe(beta.re, beta.im, Rd(C.r, at), Rd(C.i, at)))
    ELSE re
BetaIm(C, at, im) ==
    IF ~betaIsZero
    THEN Add(im, MulIm(beta.re, beta.im, Rd(C.r, at), Rd(C.i, at)))
    ELSE im

\* c.r[at] += temp1 * x (real part), c.i[at] += temp1 * x (imaginary part)
AccC(C, at, t1Re, t1Im, xRe, xIm) ==
    WrI(WrR(C, at, Add(Rd(C.r, at), MulRe(t1Re, t1Im, xRe, xIm))),
        at, Add(Rd(C.i, at), MulIm(t1Re, t1Im, xRe, xIm)))

\* when alpha is zero, the else branch: C(i,j) = beta * C(i,j), i = 1..m
RECURSIVE csymmScaleI(_, _, _)
csymmScaleI(C_in, j, i) ==
    Once(C_in, LAMBDA C :
    IF i > m THEN C
    ELSE LET coorCJ == colOfEx(C, j)
             re == MulRe(beta.re, beta.im, Rd(C.r, coorCJ + i), Rd(C.i, coorCJ + i))
             im == MulIm(beta.re, beta.im, Rd(C.r, coorCJ + i), Rd(C.i, coorCJ + i))
         IN  csymmScaleI(WrI(WrR(C, coorCJ + i, re), coorCJ + i, im), j, i + 1))

\* when alpha is zero: setCol(j, 1, m, 0) if (!betaIsZero), else the scaling
RECURSIVE csymmAlphaZeroJ(_, _)
csymmAlphaZeroJ(C_in, j) ==
    Once(C_in, LAMBDA C :
    IF j > n THEN C
    ELSE IF ~betaIsZero
         THEN csymmAlphaZeroJ(setCol(C, j, 1, m, 0), j + 1)
         ELSE csymmAlphaZeroJ(csymmScaleI(C, j, 1), j + 1))

\* side 'l', upper: the k loop, k = 1..i-1.  st = [c, rd, temp2Re, temp2Im]
RECURSIVE csymmLeftUpperK(_, _, _, _, _, _, _)
csymmLeftUpperK(A, st_in, j, i, k, temp1Re, temp1Im) ==
    Once(st_in, LAMBDA st :
    IF k > i - 1 THEN st
    ELSE LET coorCJ == colOfEx(st.c, j)
             coorBJ == colOfEx(b, j)
             coorAI == colOfEx(A, i)
             aRe == Rd(A.r, coorAI + k)
             aIm == Rd(A.i, coorAI + k)
             bRe == Rd(b.r, coorBJ + k)
             bIm == Rd(b.i, coorBJ + k)
         IN  csymmLeftUpperK(A,
                [c       |-> AccC(st.c, coorCJ + k, temp1Re, temp1Im, aRe, aIm),
                 temp2Re |-> Add(st.temp2Re, MulRe(bRe, bIm, aRe, aIm)),
                 temp2Im |-> Add(st.temp2Im, MulIm(bRe, bIm, aRe, aIm)),
                 rd      |-> st.rd \cup {coorAI + k}],
                j, i, k + 1, temp1Re, temp1Im))

\* side 'l', upper: the i loop, i = 1..m
RECURSIVE csymmLeftUpperI(_, _, _, _)
csymmLeftUpperI(A, st_in, j, i) ==
    Once(st_in, LAMBDA st :
    IF i > m THEN st
    ELSE LET coorCJ == colOfEx(st.c, j)
             coorBJ == colOfEx(b, j)
             coorAI == colOfEx(A, i)
             temp1Re == MulRe(alpha.re, alpha.im, Rd(b.r, coorBJ + i), Rd(b.i, coorBJ + i))
             temp1Im == MulIm(alpha.re, alpha.im, Rd(b.r, coorBJ + i), Rd(b.i, coorBJ + i))
             s2 == csymmLeftUpperK(A, [st EXCEPT !.temp2Re = 0, !.temp2Im = 0],
                                   j, i, 1, temp1Re, temp1Im)
             re == Add(MulRe(temp1Re, temp1Im, Rd(A.r, coorAI + i), Rd(A.i, coorAI + i)),
                       MulRe(alpha.re, alpha.im, s2.temp2Re, s2.temp2Im))
             im == Add(MulIm(temp1Re, temp1Im, Rd(A.r, coorAI + i), Rd(A.i, coorAI + i)),
                       MulIm(alpha.re, alpha.im, s2.temp2Re, s2.temp2Im))
         IN  csymmLeftUpperI(A,
                [s2 EXCEPT !.c = WrI(WrR(s2.c, coorCJ + i, BetaRe(s2.c, coorCJ + i, re)),
                                     coorCJ + i, BetaIm(s2.c, coorCJ + i, im)),
                           !.rd = @ \cup {coorAI + i}],
                j, i + 1))

RECURSIVE csymmLeftUpperJ(_, _, _)
csymmLeftUpperJ(A, st_in, j) ==
    Once(st_in, LAMBDA st :
    IF j > n THEN st
    ELSE csymmLeftUpperJ(A, csymmLeftUpperI(A, st, j, 1), j + 1))

\* side 'r': C(I,J) = TEMP1*B(I,J) [+ BETA*C(I,J)], i = 1..m
RECURSIVE csymmRightSeedI(_, _, _, _, _)
csymmRightSeedI(C_in, j, i, temp1Re, temp1Im) ==
    Once(C_in, LAMBDA C :
    IF i > m THEN C
    ELSE LET coorBJ == colOfEx(b, j)
             coorCJ == colOfEx(C, j)
             re == MulRe(temp1Re, temp1Im, Rd(b.r, coorBJ + i), Rd(b.i, coorBJ + i))
             im == MulIm(temp1Re, temp1Im, Rd(b.r, coorBJ + i), Rd(b.i, coorBJ + i))
         IN  csymmRightSeedI(
                WrI(WrR(C, coorCJ + i, BetaRe(C, coorCJ + i, re)),
                    coorCJ + i, BetaIm(C, coorCJ + i, im)),
                j, i + 1, temp1Re, temp1Im))

\* side 'r': C(I,J) = C(I,J) + TEMP1*B(I,K), i = 1..m
RECURSIVE csymmRightAccI(_, _, _, _, _, _)
csymmRightAccI(C_in, j, k, i, temp1Re, temp1Im) ==
    Once(C_in, LAMBDA C :
    IF i > m THEN C
    ELSE LET coorBK == colOfEx(b, k)
             coorCJ == colOfEx(C, j)
         IN  csymmRightAccI(
                AccC(C, coorCJ + i, temp1Re, temp1Im,
                     Rd(b.r, coorBK + i), Rd(b.i, coorBK + i)),
                j, k, i + 1, temp1Re, temp1Im))

\* side 'r': one pass of either k loop, reading A at offset `at`
csymmRightKBody(A, st, j, k, at) ==
    LET aRe == Rd(A.r, at)
        aIm == Rd(A.i, at)
        temp1Re == Sub(Mul(alpha.re, aRe), Mul(alpha.im, aIm))
        temp1Im == Add(Mul(alpha.re, aIm), Mul(alpha.im, aRe))
    IN  [st EXCEPT !.c = csymmRightAccI(st.c, j, k, 1, temp1Re, temp1Im),
                   !.rd = @ \cup {at}]

\* side 'r': the loop k = 1..j-1
RECURSIVE csymmRightK1(_, _, _, _, _)
csymmRightK1(upper, A, st_in, j, k) ==
    Once(st_in, LAMBDA st :
    IF k > j - 1 THEN st
    ELSE LET coorAJ == colOfEx(A, j)
             coorAK == colOfEx(A, k)
             at     == IF upper THEN coorAJ + k ELSE coorAK + j
         IN  csymmRightK1(upper, A, csymmRightKBody(A, st, j, k, at), j, k + 1))

\* side 'r': the loop k = j+1..n
RECURSIVE csymmRightK2(_, _, _, _, _)
csymmRightK2(upper, A, st_in, j, k) ==
    Once(st_in, LAMBDA st :
    IF k > n THEN st
    ELSE LET coorAJ == colOfEx(A, j)
             coorAK == colOfEx(A, k)
             at     == IF upper THEN coorAK + j ELSE coorAJ + k
         IN  csymmRightK2(upper, A, csymmRightKBody(A, st, j, k, at), j, k + 1))

\* side 'r': the loop over the columns; temp1 = alpha * a[coorCJ + j]
RECURSIVE csymmRightJ(_, _, _, _)
csymmRightJ(upper, A, st_in, j) ==
    Once(st_in, LAMBDA st :
    IF j > n THEN st
    ELSE LET coorCJ == colOfEx(st.c, j)
             temp1Re == Sub(Mul(alpha.re, Rd(A.r, coorCJ + j)),
                            Mul(alpha.im, Rd(A.i, coorCJ + j)))
             temp1Im == Add(Mul(alpha.re, Rd(A.i, coorCJ + j)),
                            Mul(alpha.im, Rd(A.r, coorCJ + j)))
             s1 == [st EXCEPT !.c = csymmRightSeedI(st.c, j, 1, temp1Re, temp1Im),
                              !.rd = @ \cup {coorCJ + j}]
             s2 == csymmRightK1(upper, A, s1, j, 1)
         IN  csymmRightJ(upper, A, csymmRightK2(upper, A, s2, j, j + 1), j + 1))

\* The state the loops of csymm start from.
StartC(C) == [c |-> C, rd |-> {}, temp2Re |-> 0, temp2Im |-> 0]

(* ------------------- csymm, side 'l', not upper ------------------------ *)
\* From this value on every offset coor + k lies beyond every buffer, and a
\* JavaScript number that keeps being incremented ends at a value that
\* k++ no longer changes: all larger k are one state.
KSat == MaxLd * MaxDim + 1

NoLoc == [j |-> 0, i |-> 0, k |-> 0,
          temp1Re |-> 0, temp1Im |-> 0, temp2Re |-> 0, temp2Im |-> 0]

\* for (j = 1..n) for (i = m..1): the loop heads, up to the entry of the
\* k loop (temp1, temp2 and k = i + 1 set) or the end of the branch.
RECURSIVE csymmLeftLowerFor(_, _)
csymmLeftLowerFor(j, i) ==
    IF j > n THEN [pc |-> "returned", loc |-> NoLoc]
    ELSE IF i < 1 THEN csymmLeftLowerFor(j + 1, m)
    ELSE LET coorBJ == colOfEx(b, j)
         IN  [pc  |-> "ktest",
              loc |-> [j |-> j, i |-> i, k |-> i + 1,
                       temp1Re |-> Sub(Mul(alpha.re, Rd(b.r, coorBJ + i)),
                                       Mul(alpha.im, Rd(b.i, coorBJ + i))),
                       temp1Im |-> Sub(Mul(alpha.re, Rd(b.i, coorBJ + i)),
                                       Mul(alpha.im, Rd(b.r, coorBJ + i))),
                       temp2Re |-> 0, temp2Im |-> 0]]

\* the body of for (k = i + 1; k >= m; k++)
csymmLeftLowerBody(C, l) ==
    LET coorBJ == colOfEx(b, l.j)
        coorCJ == colOfEx(C, l.j)
        coorAI == colOfEx(a, l.i)
        aRe == Rd(a.r, coorAI + l.k)
        aIm == Rd(a.i, coorAI + l.k)
        bRe == Rd(b.r, coorBJ + l.k)
        bIm == Rd(b.i, coorBJ + l.k)
    IN  [c   |-> AccC(C, coorCJ + l.k, l.temp1Re, l.temp1Im, aRe, aIm),
         loc |-> [l EXCEPT
                    !.temp2Re = Add(@, Sub(Mul(bRe, aRe), Mul(bIm, aIm))),
                    !.temp2Im = Add(@, Add(Mul(bRe, aIm), Mul(bRe, aRe))),
                    !.k = IF l.k < KSat THEN l.k + 1 ELSE l.k],
         at  |-> coorAI + l.k]

\* after the k loop: C(I,J) = TEMP1*A(I,I) + ALPHA*TEMP2 [+ BETA*C(I,J)]
csymmLeftLowerStore(C, l) ==
    LET coorCJ == colOfEx(C, l.j)
        coorAI == colOfEx(a, l.i)
        aRe == Rd(a.r, coorAI + l.i)
        aIm == Rd(a.i, coorAI + l.i)
        re == Add(Sub(Mul(l.temp1Re, aRe), Mul(l.temp1Im, aIm)),
                  Sub(Mul(alpha.re, l.temp2Re), Mul(alpha.im, l.temp2Im)))
        im == Add(Add(Mul(l.temp1Re, aIm), Mul(l.temp1Re, aRe)),
                  Add(Mul(alpha.re, l.temp2Im), Mul(alpha.im, l.temp2Re)))
    IN  [c  |-> WrI(WrR(C, coorCJ + l.i, BetaRe(C, coorCJ + l.i, re)),
                    coorCJ + l.i, BetaIm(C, coorCJ + l.i, im)),
         at |-> coorAI + l.i]

(* ------------------------------ the calls ------------------------------ *)
SideTokens == {"l", "R", "x"}
UploTokens == {"U", "l", "x"}
Scalars    == {"zero", "one", "gen"}
Fills      == {"num", "nan"}

\* the contents of the buffers, by position
AR(p) == 4 + p
AI(p) == 3 * p - 1
BR(p) == p
BI(p) == 2 * p - 1
CR(p) == 10 + p
CI(p) == p + 2

\* a view of leading dimension ld over storage for MaxDim columns
Rows(ld) == max(1, ld)
Len0(ld) == Rows(ld) * MaxDim

MatA(ld, im) ==
    IF im THEN [nrRows |-> Rows(ld), r |-> [p \in 1..Len0(ld) |-> AR(p)],
                i |-> [p \in 1..Len0(ld) |-> AI(p)]]
          ELSE [nrRows |-> Rows(ld), r |-> [p \in 1..Len0(ld) |-> AR(p)]]
MatB(ld, im) ==
    IF im THEN [nrRows |-> Rows(ld), r |-> [p \in 1..Len0(ld) |-> BR(p)],
                i |-> [p \in 1..Len0(ld) |-> BI(p)]]
          ELSE [nrRows |-> Rows(ld), r |-> [p \in 1..Len0(ld) |-> BR(p)]]
MatC(ld, im, fill) ==
    LET re(p) == IF fill = "nan" THEN NaN ELSE CR(p)
        ig(p) == IF fill = "nan" THEN NaN ELSE CI(p)
    IN  IF im THEN [nrRows |-> Rows(ld), r |-> [p \in 1..Len0(ld) |-> re(p)],
                    i |-> [p \in 1..Len0(ld) |-> ig(p)]]
              ELSE [nrRows |-> Rows(ld), r |-> [p \in 1..Len0(ld) |-> re(p)]]

AlphaOf(rt, s) ==
    IF rt = "ssymm"
    THEN CASE s = "zero" -> 0 [] s = "one" -> 1 [] OTHER -> 2
    ELSE CASE s = "zero" -> [re |-> 0, im |-> 0]
           [] s = "one"  -> [re |-> 1, im |-> 0]
           [] OTHER      -> [re |-> 2, im |-> 1]
BetaOf(rt, s) ==
    IF rt = "ssymm"
    THEN CASE s = "zero" -> 0 [] s = "one" -> 1 [] OTHER -> 3
    ELSE CASE s = "zero" -> [re |-> 0, im |-> 0]
           [] s = "one"  -> [re |-> 1, im |-> 0]
           [] OTHER      -> [re |-> 3, im |-> 1]

\* calls with any selectors, dimensions and leading dimensions
CallsAnyShape ==
    [routine : {"csymm", "ssymm"}, side : SideTokens, uplo : UploTokens,
     m : -1..MaxDim, n : -1..MaxDim,
     lda : 0..MaxLd, ldb : 0..MaxLd, ldc : 0..MaxLd,
     al : {"gen"}, be : {"gen"}, fill : {"num"}, noIm : {{}}]

\* calls with every scalar case and both kinds of contents of C
CallsAnyScalar ==
    [routine : {"csymm", "ssymm"}, side : {"l", "R"}, uplo : UploTokens,
     m : 0..MaxDim, n : 0..MaxDim,
     lda : 1..MaxLd, ldb : 1..MaxLd, ldc : 1..MaxLd,
     al : Scalars, be : Scalars, fill : Fills, noIm : {{}}]

\* calls of csymm on matrices some of which have no imaginary buffer
CallsNoIm ==
    [routine : {"csymm"}, side : SideTokens, uplo : UploTokens,
     m : {1}, n : {1}, lda : {1}, ldb : {1}, ldc : {1},
     al : {"gen"}, be : {"zero"}, fill : Fills,
     noIm : SUBSET {"a", "b", "c"} \ {{}}]

Calls == CallsAnyShape \cup CallsAnyScalar \cup CallsNoIm

Init ==
    \E call \in Calls :
        LET cplx == call.routine = "csymm"
            C == MatC(call.ldc, cplx /\ "c" \notin call.noIm, call.fill)
        IN  /\ routine = call.routine
            /\ side = call.side
            /\ uplo = call.uplo
            /\ m = call.m
            /\ n = call.n
            /\ alpha = AlphaOf(call.routine, call.al)
            /\ beta = BetaOf(call.routine, call.be)
            /\ a = MatA(call.lda, cplx /\ "a" \notin call.noIm)
            /\ b = MatB(call.ldb, cplx /\ "b" \notin call.noIm)
            /\ c = C
            /\ c0 = C
            /\ lda = call.lda
            /\ ldb = call.ldb
            /\ ldc = call.ldc
            /\ pc = "call"
            /\ err = [kind |-> "none", info |-> 0]
            /\ rd = {}
            /\ loc = NoLoc

(* ------------------------------- actions ------------------------------- *)
si  == lowerChar(side)
ul  == lowerChar(uplo)

\* Raise, had the first column of C been cleared before the throw
RaiseAfterWrite(kind, info) ==
    /\ pc' = "raised"
    /\ err' = [kind |-> kind, info |-> info]
    /\ c' = setCol(c, 1, 1, m, 0)
    /\ UNCHANGED <<args, rd, loc>>

\* throw new Error(...): the call ends, nothing else changes
Raise(kind, info) ==
    /\ pc' = "raised"
    /\ err' = [kind |-> kind, info |-> info]
    /\ UNCHANGED <<args, c, rd, loc>>

\* return: the call ends with C and the reads of A as the path left them
Return(C, reads) ==
    /\ pc' = "returned"
    /\ c' = C
    /\ rd' = reads
    /\ UNCHANGED <<args, err, loc>>

\* ssymm: throw new Error(errWrongArg('ssymm', info))
ssymmWrongArg ==
    /\ routine = "ssymm" /\ pc = "call"
    /\ ssymmInfo(si, ul, m, n, lda, ldb, ldc) # 0
    /\ Raise("wrongArg", ssymmInfo(si, ul, m, n, lda, ldb, ldc))

ssymmValid ==
    /\ routine = "ssymm" /\ pc = "call"
    /\ ssymmInfo(si, ul, m, n, lda, ldb, ldc) = 0

\* ssymm: quick return
ssymmQuickReturn ==
    /\ ssymmValid
    /\ ssymmQuick
    /\ Return(c, rd)

\* ssymm: when alpha is zero
ssymmAlphaZero ==
    /\ ssymmValid
    /\ ~ssymmQuick
    /\ alpha = 0
    /\ Return(ssymmAlphaZeroJ(c, 1), rd)

\* ssymm: side 'l', uplo 'u'
ssymmLeftUpper ==
    /\ ssymmValid
    /\ ~ssymmQuick
    /\ alpha # 0
    /\ si = "l" /\ ul = "u"
    /\ LET st == ssymmEngine(si, ul, a, c) IN Return(st.c, st.rd)

\* ssymm: side 'l', uplo 'l'
ssymmLeftLower ==
    /\ ssymmValid
    /\ ~ssymmQuick
    /\ alpha # 0
    /\ si = "l" /\ ul # "u"
    /\ LET st == ssymmEngine(si, ul, a, c) IN Return(st.c, st.rd)

\* ssymm: side 'r'
ssymmRight ==
    /\ ssymmValid
    /\ ~ssymmQuick
    /\ alpha # 0
    /\ si # "l"
    /\ LET st == ssymmEngine(si, ul, a, c) IN Return(st.c, st.rd)

\* which of a.i, b.i, c.i is the first that is undefined
MissingIm ==
    IF "i" \notin DOMAIN a THEN "a.i"
    ELSE IF "i" \notin DOMAIN b THEN "b.i"
    ELSE IF "i" \notin DOMAIN c THEN "c.i"
    ELSE "none"

\* csymm: throw new Error(errMissingIm(...))
csymmMissingIm ==
    /\ routine = "csymm" /\ pc = "call"
    /\ MissingIm # "none"
    /\ Raise(MissingIm, 0)

\* csymm: throw new Error(errWrongArg('csymm', info))
csymmWrongArg ==
    /\ routine = "csymm" /\ pc = "call"
    /\ MissingIm = "none"
    /\ csymmInfo(si, ul, m, n, lda, ldb, ldc) # 0
    /\ Raise("wrongArg", csymmInfo(si, ul, m, n, lda, ldb, ldc))

csymmValid ==
    /\ routine = "csymm" /\ pc = "call"
    /\ MissingIm = "none"
    /\ csymmInfo(si, ul, m, n, lda, ldb, ldc) = 0

\* csymm: quick return
csymmQuickReturn ==
    /\ csymmValid
    /\ csymmQuick
    /\ Return(c, rd)

\* csymm: when alpha is zero
csymmAlphaZero ==
    /\ csymmValid
    /\ ~csymmQuick
    /\ alphaIsZero
    /\ Return(csymmAlphaZeroJ(c, 1), rd)

\* csymm: side 'l'; upper runs to its end, not upper enters its loops
csymmLeft ==
    /\ csymmValid
    /\ ~csymmQuick
    /\ ~alphaIsZero
    /\ si = "l"
    /\ IF ul = "u"
       THEN LET st == csymmLeftUpperJ(a, StartC(c), 1) IN Return(st.c, st.rd)
       ELSE LET h == csymmLeftLowerFor(1, m)
            IN  /\ pc' = h.pc
                /\ loc' = h.loc
                /\ UNCHANGED <<args, c, err, rd>>

\* csymm, side 'l', not upper: the test k >= m of the k loop; when it
\* fails C(I,J) is stored and the i and j loops go on
csymmLeftLowerKTest ==
    /\ pc = "ktest"
    /\ IF loc.k >= m
       THEN /\ pc' = "kbody"
            /\ UNCHANGED <<args, c, err, rd, loc>>
       ELSE LET s == csymmLeftLowerStore(c, loc)
                h == csymmLeftLowerFor(loc.j, loc.i - 1)
            IN  /\ c' = s.c
                /\ rd' = rd \cup {s.at}
                /\ pc' = h.pc
                /\ loc' = h.loc
                /\ UNCHANGED <<args, err>>

\* csymm, side 'l', not upper: the body of the k loop and k++
csymmLeftLowerKBody ==
    /\ pc = "kbody"
    /\ LET s == csymmLeftLowerBody(c, loc)
       IN  /\ c' = s.c
           /\ loc' = s.loc
           /\ rd' = rd \cup {s.at}
           /\ pc' = "ktest"
           /\ UNCHANGED <<args, err>>

\* csymm: side 'r'
csymmRight ==
    /\ csymmValid
    /\ ~csymmQuick
    /\ ~alphaIsZero
    /\ si # "l"
    /\ LET st == csymmRightJ(ul = "u", a, StartC(c), 1) IN Return(st.c, st.rd)

Next ==
    \/ ssymmWrongArg
    \/ ssymmQuickReturn
    \/ ssymmAlphaZero
    \/ ssymmLeftUpper
    \/ ssymmLeftLower
    \/ ssymmRight
    \/ csymmMissingIm
    \/ csymmWrongArg
    \/ csymmQuickReturn
    \/ csymmAlphaZero
    \/ csymmLeft
    \/ csymmLeftLowerKTest
    \/ csymmLeftLowerKBody
    \/ csymmRight

Spec == Init /\ [][Next]_vars

\* The routines run in the caller's thread with no suspension point: a
\* call that can take a step takes it.
FairSpec == Spec /\ WF_vars(Next)

(* ------------------------ the routines as functions -------------------- *)
\* C after a call of ssymm that passes the test of the input parameters
ssymmCall(sv, uv, A, C) ==
    IF ssymmQuick THEN C
    ELSE IF alpha = 0 THEN ssymmAlphaZeroJ(C, 1)
    ELSE ssymmEngine(sv, uv, A, C).c

\* The outcome of a call of csymm on matrices with imaginary buffers:
\* C at its end, and whether it ends (side 'l' with upper false enters
\* the k loop with k = m + 1 >= m, which then holds for every later k).
csymmCall(sv, uv, A, C) ==
    IF csymmInfo(sv, uv, m, n, lda, ldb, ldc) # 0 THEN [ends |-> TRUE, c |-> C]
    ELSE IF csymmQuick THEN [ends |-> TRUE, c |-> C]
    ELSE IF alphaIsZero THEN [ends |-> TRUE, c |-> csymmAlphaZeroJ(C, 1)]
    ELSE IF sv = "l"
         THEN IF uv = "u"
              THEN [ends |-> TRUE, c |-> csymmLeftUpperJ(A, StartC(C), 1).c]
              ELSE [ends |-> csymmLeftLowerFor(1, m).pc = "returned", c |-> C]
    ELSE [ends |-> TRUE, c |-> csymmRightJ(uv = "u", A, StartC(C), 1).c]

(* --------------------------- what is claimed --------------------------- *)
Done == pc \in {"returned", "raised"}

\* rows of A as the documented contract counts them
RowsOfA == IF si = "l" THEN m ELSE n

\* The number (1..7) of the first documented check that fails, 0 if none.
FirstFailing ==
    IF si \notin {"l", "r"} THEN 1
    ELSE IF ul \notin {"u", "l"} THEN 2
    ELSE IF m < 0 THEN 3
    ELSE IF n < 0 THEN 4
    ELSE IF lda < max(1, RowsOfA) THEN 5
    ELSE IF ldb < max(1, m) THEN 6
    ELSE IF ldc < max(1, m) THEN 7
    ELSE 0

\* The position, in the parameter list, of the argument a check is about.
ArgumentOf(check) ==
    CASE check = 1 -> 1 [] check = 2 -> 2 [] check = 3 -> 3 [] check = 4 -> 4
      [] check = 5 -> 7 [] check = 6 -> 9 [] check = 7 -> 12 [] OTHER -> 0

\* a call the contract accepts: the seven checks pass, and for csymm every
\* matrix has its imaginary buffer
ValidCall == FirstFailing = 0 /\ (routine = "csymm" => MissingIm = "none")

\* element (i, j) of a matrix: real and imaginary part
ElemR(M, i, j) == Rd(M.r, (j - 1) * M.nrRows + i)
ElemI(M, i, j) == Rd(M.i, (j - 1) * M.nrRows + i)

\* element (i, k) of the symmetric matrix whose triangle tri is stored in A
SymR(A, tri, i, k) ==
    IF (tri = "u" /\ i <= k) \/ (tri = "l" /\ i >= k)
    THEN ElemR(A, i, k) ELSE ElemR(A, k, i)
SymI(A, tri, i, k) ==
    IF (tri = "u" /\ i <= k) \/ (tri = "l" /\ i >= k)
    THEN ElemI(A, i, k) ELSE ElemI(A, k, i)

\* sum over k = k..kmax of S(i,k)*B(k,j) (left) or B(i,k)*S(k,j) (right)
RECURSIVE DotR(_, _, _, _, _, _)
DotR(sv, tri, i, j, k, kmax) ==
    IF k > kmax THEN 0
    ELSE Add(IF sv = "l" THEN Mul(SymR(a, tri, i, k), ElemR(b, k, j))
                         ELSE Mul(ElemR(b, i, k), SymR(a, tri, k, j)),
             DotR(sv, tri, i, j, k + 1, kmax))

\* alpha * (S*B or B*S)(i,j) + beta * C0(i,j), real matrices and scalars;
\* with beta zero C0 takes no part
ExpectedReal(i, j) ==
    LET prod == Mul(alpha, DotR(si, ul, i, j, 1, RowsOfA))
    IN  IF beta = 0 THEN prod ELSE Add(prod, Mul(beta, ElemR(c0, i, j)))

\* the same sum for complex matrices: real and imaginary part
RECURSIVE DotCRe(_, _, _, _, _, _)
DotCRe(sv, tri, i, j, k, kmax) ==
    IF k > kmax THEN 0
    ELSE Add(IF sv = "l"
             THEN MulRe(SymR(a, tri, i, k), SymI(a, tri, i, k),
                        ElemR(b, k, j), ElemI(b, k, j))
             ELSE MulRe(ElemR(b, i, k), ElemI(b, i, k),
                        SymR(a, tri, k, j), SymI(a, tri, k, j)),
             DotCRe(sv, tri, i, j, k + 1, kmax))
RECURSIVE DotCIm(_, _, _, _, _, _)
DotCIm(sv, tri, i, j, k, kmax) ==
    IF k > kmax THEN 0
    ELSE Add(IF sv = "l"
             THEN MulIm(SymR(a, tri, i, k), SymI(a, tri, i, k),
                        ElemR(b, k, j), ElemI(b, k, j))
             ELSE MulIm(ElemR(b, i, k), ElemI(b, i, k),
                        SymR(a, tri, k, j), SymI(a, tri, k, j)),
             DotCIm(sv, tri, i, j, k + 1, kmax))

ExpectedRe(i, j) ==
    LET dRe  == DotCRe(si, ul, i, j, 1, RowsOfA)
        dIm  == DotCIm(si, ul, i, j, 1, RowsOfA)
        prod == MulRe(alpha.re, alpha.im, dRe, dIm)
    IN  IF betaIsZero THEN prod
        ELSE Add(prod, MulRe(beta.re, beta.im, ElemR(c0, i, j), ElemI(c0, i, j)))
ExpectedIm(i, j) ==
    LET dRe  == DotCRe(si, ul, i, j, 1, RowsOfA)
        dIm  == DotCIm(si, ul, i, j, 1, RowsOfA)
        prod == MulIm(alpha.re, alpha.im, dRe, dIm)
    IN  IF betaIsZero THEN prod
        ELSE Add(prod, MulIm(beta.re, beta.im, ElemR(c0, i, j), ElemI(c0, i, j)))

\* C6: ssymm, alpha nonzero, valid call: on return every C(i,j) of the
\* active region is alpha * sum_k S(i,k)*B(k,j) + beta*C0(i,j) (side left)
\* or alpha * sum_k B(i,k)*S(k,j) + beta*C0(i,j) (side right), S being the
\* reflection of the stored triangle of A, in all four branches and for
\* independent leading dimensions.
C6_SsymmProduct ==
    (routine = "ssymm" /\ ValidCall /\ alpha # 0 /\ Done)
        => /\ pc = "returned"
           /\ \A i \in 1..m, j \in 1..n : ElemR(c, i, j) = ExpectedReal(i, j)

\* C1: for both entry points, an InvalidArgument error is raised if and
\* only if one of the seven documented checks fails, and it names the
\* argument of the first check that fails (calls whose matrices all have
\* the buffers the entry point needs).
C1_InvalidArgumentIff ==
    (pc # "call" /\ (routine = "csymm" => MissingIm = "none"))
        => /\ (err.kind = "wrongArg") <=> (FirstFailing # 0)
           /\ err.kind = "wrongArg" => err.info = ArgumentOf(FirstFailing)

\* C2: a call that ends by raising an error (InvalidArgument in either
\* routine, or the missing imaginary buffer of csymm, which is raised
\* whenever one of A, B, C has none) has written nothing to C: C is
\* what it was on entry.
C2_NoMutationOnError ==
    /\ pc = "raised" => c = c0
    /\ (routine = "csymm" /\ MissingIm # "none" /\ pc # "call")
           => (pc = "raised" /\ err.kind = MissingIm /\ c = c0)

\* ssymm has raised InvalidArgument on a call whose C has a nonempty
\* active region
C2_Witness ==
    /\ pc = "raised"
    /\ routine = "ssymm"
    /\ err.kind = "wrongArg"
    /\ m >= 1 /\ n >= 1

\* C3: a valid call with m = 0, or n = 0, or alpha zero and beta one,
\* returns without raising and leaves every element of C as it was.
C3_NoOp ==
    (ValidCall /\ Done
       /\ (m = 0 \/ n = 0 \/
           IF routine = "ssymm" THEN alpha = 0 /\ beta = 1
                                ELSE alphaIsZero /\ betaIsOne))
        => (pc = "returned" /\ c = c0)

\* C4: a valid call with m, n >= 1 and alpha zero returns with every
\* element of the active region zero when beta is zero, and beta times its
\* prior value otherwise.
C4_AlphaZero ==
    (ValidCall /\ Done /\ m >= 1 /\ n >= 1
       /\ IF routine = "ssymm" THEN alpha = 0 ELSE alphaIsZero)
        => /\ pc = "returned"
           /\ \A i \in 1..m, j \in 1..n :
                IF routine = "ssymm"
                THEN ElemR(c, i, j) =
                        (IF beta = 0 THEN 0 ELSE Mul(beta, ElemR(c0, i, j)))
                ELSE /\ ElemR(c, i, j) =
                          (IF betaIsZero THEN 0
                           ELSE MulRe(beta.re, beta.im,
                                      ElemR(c0, i, j), ElemI(c0, i, j)))
                     /\ ElemI(c, i, j) =
                          (IF betaIsZero THEN 0
                           ELSE MulIm(beta.re, beta.im,
                                      ElemR(c0, i, j), ElemI(c0, i, j)))

\* the active m-by-n region of a matrix: real and imaginary parts
ActiveR(M) == [i \in 1..m, j \in 1..n |-> ElemR(M, i, j)]
ActiveI(M) == [i \in 1..m, j \in 1..n |-> ElemI(M, i, j)]

\* C5: with beta zero the active region of C after a valid call does not
\* depend on what C held on entry: no NaN of the entry contents is left in
\* it, and the call started from any other contents of C ends with the
\* same active region.
C5_BetaZeroIgnoresC ==
    (ValidCall /\ Done
       /\ IF routine = "ssymm" THEN beta = 0 ELSE betaIsZero)
        => /\ \A i \in 1..m, j \in 1..n :
                /\ ElemR(c, i, j) # NaN
                /\ routine = "csymm" => ElemI(c, i, j) # NaN
           /\ \A fill \in Fills :
                IF routine = "ssymm"
                THEN ActiveR(ssymmCall(si, ul, a, MatC(ldc, FALSE, fill)))
                        = ActiveR(c)
                ELSE LET o == csymmCall(si, ul, a, MatC(ldc, TRUE, fill))
                     IN  /\ o.ends
                         /\ ActiveR(o.c) = ActiveR(c)
                         /\ ActiveI(o.c) = ActiveI(c)

\* C7: csymm, alpha nonzero, valid call: on return C is alpha*S*B + beta*C0
\* (side left) or alpha*B*S + beta*C0 (side right) in complex arithmetic
\* without conjugation.
C7_CsymmProduct ==
    (routine = "csymm" /\ ValidCall /\ ~alphaIsZero /\ Done)
        => /\ pc = "returned"
           /\ \A i \in 1..m, j \in 1..n :
                /\ ElemR(c, i, j) = ExpectedRe(i, j)
                /\ ElemI(c, i, j) = ExpectedIm(i, j)

\* the other triangle, and A with its leading rowsOfA-by-rowsOfA block
\* transposed: what was stored in one triangle is stored in the other
OtherTriangle(tri) == IF tri = "u" THEN "l" ELSE "u"
Mirrored(A) ==
    LET T(buf) ==
          [p \in 1..Len(buf) |->
             LET r  == ((p - 1) % A.nrRows) + 1
                 cc == ((p - 1) \div A.nrRows) + 1
             IN  IF r <= RowsOfA /\ cc <= RowsOfA
                 THEN buf[(r - 1) * A.nrRows + cc] ELSE buf[p]]
    IN  IF "i" \in DOMAIN A
        THEN [A EXCEPT !.r = T(A.r), !.i = T(A.i)]
        ELSE [A EXCEPT !.r = T(A.r)]

\* C8: a valid call, and the call with the other triangle on the mirrored
\* storage of A (everything else the same), end with the same C.
C8_SymmetryOblivious ==
    (ValidCall /\ Done)
        => IF routine = "ssymm"
           THEN c = ssymmCall(si, OtherTriangle(ul), Mirrored(a), c0)
           ELSE LET o == csymmCall(si, OtherTriangle(ul), Mirrored(a), c0)
                IN  o.ends /\ c = o.c

\* C9: every call terminates: it returns or raises.
C9_Terminates == <>Done

\* C10: every offset of A's buffers that has been read is the offset of an
\* element A(r, cc) with 1 <= r, cc <= rowsOfA that lies on the diagonal
\* or in the declared triangle.
C10_ReadsInTriangle ==
    \A off \in rd :
        LET r  == ((off - 1) % a.nrRows) + 1
            cc == ((off - 1) \div a.nrRows) + 1
        IN  /\ off >= 1
            /\ r <= RowsOfA /\ cc <= RowsOfA
            /\ ul = "u" => r <= cc
            /\ ul = "l" => r >= cc

====
